---- MODULE Spec2Model ----
(***************************************************************************)
(* Model of the Apple splash-screen instruction resolver                   *)
(* (src/api/apple-icons-helper.ts) and of the CLI driver                   *)
(* (src/cli-start.ts) of the PWA assets generator.                         *)
(*                                                                         *)
(* JavaScript objects are modelled as records whose DOMAIN is the set of   *)
(* properties that are not undefined: `typeof o.f === 'undefined'` is      *)
(* "f" \notin DOMAIN o, and the empty object {} is the empty function <<>>.*)
(* Paddings are in tenths (3 stands for 0.3).                              *)
(***************************************************************************)
EXTENDS Integers, Sequences, FiniteSets, Bags, TLC

VARIABLES
    useAppleSplashScreens, \* the preset object handed to the resolver
    sizes,                 \* the size descriptor objects of preset.sizes (mutable heap objects)
    callerSizes,           \* history: the descriptors as the caller built them
    splashScreens,         \* the local splashScreens list of the latest resolver call
    instructions,          \* one appleSplashScreen map (in insertion order) per resolver call
    bufferCalls,           \* bag of <<call, url>>: invocations of an entry's buffer()
    generateMaskableAssetCalls, \* bag of the argument lists the compositor was invoked with
    pc,                    \* position of run() in cli-start.ts
    config,                \* the loaded configuration of run()
    cliImages,             \* the images given on the command line
    resolution,            \* per source image: state of its resolveInstructions promise
    resolveCalls,          \* images resolveInstructions was invoked for, in order
    generateCalls,         \* images generateAssets was invoked for, in order
    generated,             \* images whose generateAssets call has completed
    printed,               \* markup / manifest output written, in order
    error                  \* the error run() failed with, "" if none

appleVars == <<useAppleSplashScreens, sizes, callerSizes, splashScreens, instructions,
               bufferCalls, generateMaskableAssetCalls>>
cliVars == <<pc, config, cliImages, resolution, resolveCalls, generateCalls, generated,
             printed, error>>
vars == <<useAppleSplashScreens, sizes, callerSizes, splashScreens, instructions,
          bufferCalls, generateMaskableAssetCalls,
          pc, config, cliImages, resolution, resolveCalls, generateCalls, generated,
          printed, error>>

---------------------------------------------------------------------------
\* Bounds of the model

\* longest preset.sizes list
MaxSizes == 3
\* resolver calls on the same preset object
MaxResolves == 2
\* longest preset.sizes list when the deferred producers are exercised
MaxLazySizes == 1
\* resolver calls when the deferred producers are exercised
MaxLazyResolves == 1
\* buffer() invocations in one behaviour
MaxBufferCalls == 3
\* source images of one CLI run
MaxImages == 2

\* padding default, `padding = 0.3` and `size.padding ?? 0.3`, in tenths
DefaultPadding == 3

---------------------------------------------------------------------------
\* JavaScript object helpers

Has(o, f) == f \in DOMAIN o

\* { ...a, ...b }
Spread(a, b) == b @@ a

\* const { drop..., ...rest } = o
Rest(o, drop) == [f \in (DOMAIN o) \ drop |-> o[f]]

\* o.f, or the empty object when o.f is undefined
FieldOrEmpty(o, f) == IF Has(o, f) THEN o[f] ELSE <<>>

\* { f: o.g } when o.g is defined, {} otherwise
Copy(f, o, g) == IF Has(o, g) THEN (f :> o[g]) ELSE <<>>

---------------------------------------------------------------------------
\* Collaborators that live outside the two source files

\* createResizeOptions(dark, options): built-in defaults overridden field by field
createResizeOptions(dark, options) ==
    Spread([fit |-> "contain", background |-> IF dark THEN "black" ELSE "white"], options)

\* createPngCompressionOptions(options)
createPngCompressionOptions(options) ==
    Spread([compressionLevel |-> 9, quality |-> 60], options)

\* defaultSplashScreenName(landscape, size, dark): pure and injective in what it is given
defaultSplashScreenName(landscape, size, dark) ==
    <<landscape, dark, size.width, size.height>>

---------------------------------------------------------------------------
\* resolveAppleSplashScreens

\* a back-fill that assigns the preset-level padding without testing for undefined
backfillSizeOverwrite(size, padding, png, resizeOptions, darkResizeOptions) ==
    LET s1 == Spread(size, [padding |-> padding])
        s2 == IF Has(s1, "png") THEN s1 ELSE Spread(s1, [png |-> png])
        s3 == IF Has(s2, "resizeOptions") THEN s2
              ELSE Spread(s2, [resizeOptions |-> resizeOptions])
        s4 == IF Has(s3, "darkResizeOptions") THEN s3
              ELSE Spread(s3, [darkResizeOptions |-> darkResizeOptions])
    IN  s4

\* the body of `for (const size of sizes)`: back-fill of the undefined fields
backfillSize(size, padding, png, resizeOptions, darkResizeOptions) ==
    LET s1 == IF Has(size, "padding") THEN size ELSE Spread(size, [padding |-> padding])
        s2 == IF Has(s1, "png") THEN s1 ELSE Spread(s1, [png |-> png])
        s3 == IF Has(s2, "resizeOptions") THEN s2
              ELSE Spread(s2, [resizeOptions |-> resizeOptions])
        s4 == IF Has(s3, "darkResizeOptions") THEN s3
              ELSE Spread(s3, [darkResizeOptions |-> darkResizeOptions])
    IN  s4

resolveAppleSplashScreens(use, szs) ==
    IF ~use.defined
    THEN [defined |-> FALSE, sizes |-> szs]
    ELSE LET padding == IF Has(use, "padding") THEN use.padding ELSE DefaultPadding
             resizeOptions == createResizeOptions(FALSE, FieldOrEmpty(use, "resizeOptions"))
             darkResizeOptions ==
                 createResizeOptions(TRUE, FieldOrEmpty(use, "darkResizeOptions"))
             png == createPngCompressionOptions(FieldOrEmpty(use, "png"))
         IN  [defined |-> TRUE,
              padding |-> padding,
              sizes |-> [i \in 1..Len(szs) |->
                            backfillSize(szs[i], padding, png, resizeOptions,
                                         darkResizeOptions)],
              linkMediaOptions |-> [log |-> TRUE, addMediaScreen |-> TRUE,
                                    basePath |-> "/", xhtml |-> FALSE],
              png |-> png]

---------------------------------------------------------------------------
\* resolveAppleSplashScreensInstructions: the reduce over sizes

\* resize options copied without transposing width and height
swapResizeNot(o) == o

\* { ...rest, width: o.height, height: o.width } of a resize-options object
swapResize(o) ==
    LET D == ((DOMAIN o) \ {"width", "height"})
             \cup (IF Has(o, "height") THEN {"width"} ELSE {})
             \cup (IF Has(o, "width") THEN {"height"} ELSE {})
    IN  [f \in D |-> CASE f = "width" -> o["height"]
                       [] f = "height" -> o["width"]
                       [] OTHER -> o[f]]

\* the landscapeSize object built from a descriptor
landscapeSizeOf(size) ==
    Spread(Rest(size, {"width", "height"}),
           [width |-> size.height, height |-> size.width,
            resizeOptions |-> swapResize(FieldOrEmpty(size, "resizeOptions"))])

\* the landscapeDarkSize object built from a descriptor that has darkResizeOptions
landscapeDarkSizeOf(size) ==
    Spread(Rest(size, {"width", "height", "darkResizeOptions"}),
           [width |-> size.height, height |-> size.width,
            resizeOptions |-> swapResize(size.darkResizeOptions)])

\* one SplashScreenData; `size` is [ref |-> i] when it is the descriptor object
\* sizes[i] itself and [obj |-> o] when it is an object built by the reducer
splashScreenData(sizeRef, landscape, dark, resizeOptionsOrEmpty, size, png) ==
    Spread([size |-> sizeRef, landscape |-> landscape, dark |-> dark,
            padding |-> IF Has(size, "padding") THEN size.padding ELSE DefaultPadding,
            png |-> IF Has(size, "png") THEN size.png ELSE png],
           resizeOptionsOrEmpty)

\* a reducer whose duplicate test never fires
isDuplicateNever(sizesMap, size) == FALSE

\* a callback that transposes the descriptor object itself instead of a copy
sizeAfterCallbackTransposed(size) ==
    Spread(size, [width |-> size.height, height |-> size.width])

\* the descriptor object after the reducer callback ran on it: the destructuring and
\* the object literals build new objects, the descriptor is only read
sizeAfterCallback(size) == size

\* the duplicate test of the reducer: sizesMap.get(size.width) === size.height
isDuplicate(sizesMap, size) ==
    /\ size.width \in DOMAIN sizesMap
    /\ sizesMap[size.width] = size.height

\* the reducer callback on descriptor i; st = [acc, sizesMap, heap], heap being the
\* descriptor objects
reduceSize(st, i, png) ==
    LET size == st.heap[i]
    IN  IF isDuplicate(st.sizesMap, size)
        THEN st
        ELSE LET lightDark == IF Has(size, "darkResizeOptions") THEN "false" ELSE "undefined"
                 landscapeSize == landscapeSizeOf(size)
                 light == << splashScreenData([ref |-> i], FALSE, lightDark,
                                              Copy("resizeOptions", size, "resizeOptions"),
                                              size, png),
                             splashScreenData([obj |-> landscapeSize], TRUE, lightDark,
                                              [resizeOptions |-> landscapeSize.resizeOptions],
                                              size, png) >>
                 dark == IF ~Has(size, "darkResizeOptions") THEN <<>>
                         ELSE << splashScreenData([ref |-> i], FALSE, "true",
                                     [resizeOptions |-> size.darkResizeOptions], size, png),
                                 splashScreenData([obj |-> landscapeDarkSizeOf(size)], TRUE,
                                     "true",
                                     [resizeOptions |-> swapResize(size.darkResizeOptions)],
                                     size, png) >>
             IN  [acc |-> st.acc \o light \o dark,
                  sizesMap |-> (size.width :> size.height) @@ st.sizesMap,
                  heap |-> [st.heap EXCEPT ![i] = sizeAfterCallback(size)]]

RECURSIVE reduceSizes(_, _, _)
\* sizes.reduce(callback, []) over descriptors 1..n
reduceSizes(heap, n, png) ==
    IF n = 0
    THEN [acc |-> <<>>, sizesMap |-> <<>>, heap |-> heap]
    ELSE reduceSize(reduceSizes(heap, n - 1, png), n, png)

---------------------------------------------------------------------------
\* resolveAppleSplashScreensInstructions: the loop that builds the entries

deref(sizeRef, heap) == IF Has(sizeRef, "ref") THEN heap[sizeRef.ref] ELSE sizeRef.obj

\* the arguments of createAppleSplashScreenHtmlLink
htmlLinkArgs(v, sz, linkMediaOptions) ==
    [width |-> sz.width, height |-> sz.height, landscape |-> v.landscape,
     addMediaScreen |-> linkMediaOptions.addMediaScreen, xhtml |-> linkMediaOptions.xhtml,
     basePath |-> linkMediaOptions.basePath, dark |-> v.dark, includeId |-> FALSE]

\* the value stored at instructions.appleSplashScreen[url]; `buffer` holds what the
\* closure captured (the SplashScreenData), not a result
entryOf(v, heap, linkMediaOptions) ==
    LET sz == deref(v.size, heap)
        name == defaultSplashScreenName(v.landscape, sz, v.dark)
    IN  [name |-> name,
         url |-> <<"/", name>>,
         width |-> sz.width,
         height |-> sz.height,
         mimeType |-> "image/png",
         link |-> htmlLinkArgs(v, sz, linkMediaOptions),
         buffer |-> v]

\* map[url] = entry on a JavaScript object with string keys: a new key is appended,
\* an existing key keeps its position
putEntry(map, e) ==
    IF \E k \in 1..Len(map) : map[k].url = e.url
    THEN [k \in 1..Len(map) |-> IF map[k].url = e.url THEN e ELSE map[k]]
    ELSE Append(map, e)

RECURSIVE buildEntries(_, _, _, _)
\* `for (const size of splashScreens)` over variants 1..n
buildEntries(vs, n, heap, linkMediaOptions) ==
    IF n = 0 THEN <<>>
    ELSE putEntry(buildEntries(vs, n - 1, heap, linkMediaOptions),
                  entryOf(vs[n], heap, linkMediaOptions))

\* the arguments of generateMaskableAsset when the closure of an entry runs
compositorArgs(v, heap) ==
    LET ro == FieldOrEmpty(v, "resizeOptions")
    IN  [type |-> "png",
         size |-> deref(v.size, heap),
         padding |-> v.padding,
         resizeOptions |->
             Spread(ro, [background |-> IF Has(ro, "background") THEN ro.background
                                        ELSE IF v.dark = "true" THEN "black" ELSE "white"]),
         outputOptions |-> v.png]

\* compositor invocations made while the entries are built: the closures are only
\* stored, none is run
compositorCallsOfResolve(vs, heap) == EmptyBag

\* a buffer() that remembers its result and runs the compositor on the first call only
bufferCached(calls, entry, heap) ==
    IF BagIn(compositorArgs(entry.buffer, heap), calls)
    THEN calls
    ELSE calls (+) SetToBag({compositorArgs(entry.buffer, heap)})

\* entry.buffer(): promise() runs generateMaskableAsset once
buffer(calls, entry, heap) == calls (+) SetToBag({compositorArgs(entry.buffer, heap)})

---------------------------------------------------------------------------
\* Inputs

\* the size descriptors a caller builds: three declared sizes, bare and with
\* per-size options
Descriptors ==
    { [width |-> 1, height |-> 1],
      [width |-> 1, height |-> 2],
      [width |-> 2, height |-> 1],
      [width |-> 1, height |-> 1, padding |-> 1],
      [width |-> 1, height |-> 2, padding |-> 1, resizeOptions |-> [width |-> 1]],
      [width |-> 2, height |-> 1, png |-> [quality |-> 80],
       resizeOptions |-> [fit |-> "cover", width |-> 2, height |-> 1],
       darkResizeOptions |-> [background |-> "navy", width |-> 1]] }

\* the descriptors used when the deferred producers are exercised
LazyDescriptors ==
    { [width |-> 1, height |-> 2],
      [width |-> 2, height |-> 1, png |-> [quality |-> 80],
       resizeOptions |-> [fit |-> "cover", width |-> 2, height |-> 1],
       darkResizeOptions |-> [background |-> "navy", width |-> 1]] }

RECURSIVE SeqsUpTo(_, _)
SeqsUpTo(S, n) ==
    IF n = 0 THEN {<<>>}
    ELSE LET shorter == SeqsUpTo(S, n - 1)
         IN  shorter \cup { Append(s, x) : s \in { t \in shorter : Len(t) = n - 1 }, x \in S }

\* the preset-level options a caller passes
Presets ==
    { [defined |-> TRUE],
      [defined |-> TRUE, padding |-> 2, resizeOptions |-> [background |-> "red"],
       darkResizeOptions |-> [fit |-> "cover"], png |-> [compressionLevel |-> 6]] }

cliIdle ==
    /\ pc = "idle"
    /\ config = [preset |-> FALSE, images |-> <<>>, logLevel |-> "info", manifest |-> TRUE]
    /\ cliImages = <<>>
    /\ resolution = <<>>
    /\ resolveCalls = <<>>
    /\ generateCalls = <<>>
    /\ generated = {}
    /\ printed = <<>>
    /\ error = ""

appleInit(descriptors, maxSizes) ==
    /\ \/ /\ useAppleSplashScreens \in Presets
          /\ sizes \in SeqsUpTo(descriptors, maxSizes)
       \/ /\ useAppleSplashScreens = [defined |-> FALSE]
          /\ sizes = <<>>
    /\ callerSizes = sizes
    /\ splashScreens = <<>>
    /\ instructions = <<>>
    /\ bufferCalls = EmptyBag
    /\ generateMaskableAssetCalls = EmptyBag

Init == appleInit(Descriptors, MaxSizes) /\ cliIdle

---------------------------------------------------------------------------
\* Actions of the resolver

\* resolveAppleSplashScreensInstructions(image, imageAssets, instructions, preset)
\* with a fresh instructions object, at most maxResolves times
Resolve(maxResolves) ==
    /\ Len(instructions) < maxResolves
    /\ LET appleSplashScreens == resolveAppleSplashScreens(useAppleSplashScreens, sizes)
       IN  IF ~appleSplashScreens.defined \/ Len(appleSplashScreens.sizes) = 0
           THEN /\ sizes' = appleSplashScreens.sizes
                /\ splashScreens' = <<>>
                /\ instructions' = Append(instructions, <<>>)
                /\ generateMaskableAssetCalls' = generateMaskableAssetCalls
           ELSE LET r == reduceSizes(appleSplashScreens.sizes,
                                     Len(appleSplashScreens.sizes), appleSplashScreens.png)
                IN  /\ sizes' = r.heap
                    /\ splashScreens' = r.acc
                    /\ instructions' =
                           Append(instructions,
                                  buildEntries(r.acc, Len(r.acc), r.heap,
                                               appleSplashScreens.linkMediaOptions))
                    /\ generateMaskableAssetCalls' =
                           generateMaskableAssetCalls
                               (+) compositorCallsOfResolve(r.acc, r.heap)
    /\ UNCHANGED <<useAppleSplashScreens, callerSizes, bufferCalls>>
    /\ UNCHANGED cliVars

ResolveAppleSplashScreensInstructions == Resolve(MaxResolves)

\* a caller invokes buffer() of the entry at position e of the map built by call c
Buffer(c, e) ==
    /\ BagCardinality(bufferCalls) < MaxBufferCalls
    /\ bufferCalls' = bufferCalls (+) SetToBag({<<c, instructions[c][e].url>>})
    /\ generateMaskableAssetCalls' =
           buffer(generateMaskableAssetCalls, instructions[c][e], sizes)
    /\ UNCHANGED <<useAppleSplashScreens, sizes, callerSizes, splashScreens, instructions>>
    /\ UNCHANGED cliVars

CallBuffer == \E c \in 1..Len(instructions) : \E e \in 1..Len(instructions[c]) : Buffer(c, e)

Next == ResolveAppleSplashScreensInstructions

Spec == Init /\ [][Next]_vars

InitLazy == appleInit(LazyDescriptors, MaxLazySizes) /\ cliIdle

ResolveBeforeBuffer == Resolve(MaxLazyResolves)

NextLazy == ResolveBeforeBuffer \/ CallBuffer

SpecLazy == InitLazy /\ [][NextLazy]_vars

---------------------------------------------------------------------------
\* run() of cli-start.ts

Images == {"a.svg", "b.svg"}

appleIdle ==
    /\ useAppleSplashScreens = [defined |-> FALSE]
    /\ sizes = <<>>
    /\ callerSizes = <<>>
    /\ splashScreens = <<>>
    /\ instructions = <<>>
    /\ bufferCalls = EmptyBag
    /\ generateMaskableAssetCalls = EmptyBag

\* the state when run() is entered: config is what loadConfig will return
InitRun ==
    /\ appleIdle
    /\ pc = "start"
    /\ config \in [preset : BOOLEAN, images : SeqsUpTo(Images, MaxImages),
                   logLevel : {"info", "silent"}, manifest : BOOLEAN]
    /\ cliImages \in SeqsUpTo(Images, MaxImages)
    /\ resolution = <<>>
    /\ resolveCalls = <<>>
    /\ generateCalls = <<>>
    /\ generated = {}
    /\ printed = <<>>
    /\ error = ""

\* a preset test that lets every configuration pass
presetNeverMissing(cfg) == FALSE

\* !config.preset
presetMissing(cfg) == ~cfg.preset

\* if (images?.length) config.images = images
imagesToUse(images, cfg) == IF Len(images) > 0 THEN images ELSE cfg.images

\* loadConfig, then `if (!config.preset) throw new Error('No preset found')`
CheckPreset ==
    /\ pc = "start"
    /\ IF presetMissing(config)
       THEN pc' = "failed" /\ error' = "No preset found"
       ELSE pc' = "presetChecked" /\ error' = error
    /\ UNCHANGED <<config, cliImages, resolution, resolveCalls, generateCalls, generated,
                   printed>>
    /\ UNCHANGED appleVars

\* CLI images replace the configured ones, then
\* `if (!config.images?.length) throw new Error('No images provided')`
CheckImages ==
    /\ pc = "presetChecked"
    /\ config' = [config EXCEPT !.images = imagesToUse(cliImages, config)]
    /\ IF Len(config'.images) = 0
       THEN pc' = "failed" /\ error' = "No images provided"
       ELSE pc' = "imagesChecked" /\ error' = error
    /\ UNCHANGED <<cliImages, resolution, resolveCalls, generateCalls, generated, printed>>
    /\ UNCHANGED appleVars

\* useImages.map(i => resolveInstructions(...)): every call is started, Promise.all
\* is awaited
StartResolve ==
    /\ pc = "imagesChecked"
    /\ resolveCalls' = config.images
    /\ resolution' = [i \in 1..Len(config.images) |-> "pending"]
    /\ pc' = "resolving"
    /\ UNCHANGED <<config, cliImages, generateCalls, generated, printed, error>>
    /\ UNCHANGED appleVars

\* the resolveInstructions promise of image i settles
SettleResolve(i, outcome) ==
    /\ pc \in {"resolving", "failed"}
    /\ i \in 1..Len(resolution)
    /\ resolution[i] = "pending"
    /\ resolution' = [resolution EXCEPT ![i] = outcome]
    /\ UNCHANGED <<pc, config, cliImages, resolveCalls, generateCalls, generated, printed,
                   error>>
    /\ UNCHANGED appleVars

ResolveFulfilled == \E i \in 1..Len(resolution) : SettleResolve(i, "fulfilled")

ResolveRejected == \E i \in 1..Len(resolution) : SettleResolve(i, "rejected")

\* await Promise.all(...) returns: every promise is fulfilled
AllResolved ==
    /\ pc = "resolving"
    /\ \A i \in 1..Len(resolution) : resolution[i] = "fulfilled"
    /\ pc' = "loop"
    /\ UNCHANGED <<config, cliImages, resolution, resolveCalls, generateCalls, generated,
                   printed, error>>
    /\ UNCHANGED appleVars

\* await Promise.all(...) throws: some promise is rejected
ResolveFailed ==
    /\ pc = "resolving"
    /\ \E i \in 1..Len(resolution) : resolution[i] = "rejected"
    /\ pc' = "failed"
    /\ error' = "resolveInstructions rejected"
    /\ UNCHANGED <<config, cliImages, resolution, resolveCalls, generateCalls, generated,
                   printed>>
    /\ UNCHANGED appleVars

\* `for (const instruction of instructions)`: generateAssets is invoked for the next one
CallGenerateAssets ==
    /\ pc = "loop"
    /\ Len(generateCalls) < Len(resolution)
    /\ generateCalls' = Append(generateCalls, Len(generateCalls) + 1)
    /\ pc' = "generating"
    /\ UNCHANGED <<config, cliImages, resolution, resolveCalls, generated, printed, error>>
    /\ UNCHANGED appleVars

\* what the loop body prints for instruction k after generateAssets returned
outputOf(cfg, k, hasLinks) ==
    IF cfg.logLevel = "silent" THEN <<>>
    ELSE (IF hasLinks THEN << <<"links", k>> >> ELSE <<>>)
         \o (IF cfg.manifest THEN << <<"manifest", k>> >> ELSE <<>>)

\* await generateAssets(...) returns; markup and manifest entry are printed
GenerateAssetsFulfilled ==
    /\ pc = "generating"
    /\ \E hasLinks \in BOOLEAN :
           printed' = printed \o outputOf(config, Len(generateCalls), hasLinks)
    /\ generated' = generated \cup {Len(generateCalls)}
    /\ pc' = "loop"
    /\ UNCHANGED <<config, cliImages, resolution, resolveCalls, generateCalls, error>>
    /\ UNCHANGED appleVars

\* await generateAssets(...) throws
GenerateAssetsRejected ==
    /\ pc = "generating"
    /\ pc' = "failed"
    /\ error' = "generateAssets rejected"
    /\ UNCHANGED <<config, cliImages, resolution, resolveCalls, generateCalls, generated,
                   printed>>
    /\ UNCHANGED appleVars

\* the loop is over: consola.ready('PWA assets generated')
Finish ==
    /\ pc = "loop"
    /\ Len(generateCalls) = Len(resolution)
    /\ pc' = "done"
    /\ UNCHANGED <<config, cliImages, resolution, resolveCalls, generateCalls, generated,
                   printed, error>>
    /\ UNCHANGED appleVars

NextRun ==
    \/ CheckPreset
    \/ CheckImages
    \/ StartResolve
    \/ ResolveFulfilled
    \/ ResolveRejected
    \/ AllResolved
    \/ ResolveFailed
    \/ CallGenerateAssets
    \/ GenerateAssetsFulfilled
    \/ GenerateAssetsRejected
    \/ Finish

SpecRun == InitRun /\ [][NextRun]_vars

---------------------------------------------------------------------------
\* Properties of the resolver

\* some resolver call has returned for a defined preset
Resolved == Len(instructions) >= 1 /\ useAppleSplashScreens.defined

\* the (width, height) a variant renders at
renderedSize(v) == LET sz == deref(v.size, sizes) IN <<sz.width, sz.height>>

declaredSize(d) == <<d.width, d.height>>

isDark(v) == v.dark = "true"

Variants == 1..Len(splashScreens)

\* o.f and q.g are both undefined, or both defined and equal
sameField(o, f, q, g) == (Has(o, f) <=> Has(q, g)) /\ (Has(o, f) => o[f] = q[g])

declaredOf(v) ==
    IF v.landscape THEN <<renderedSize(v)[2], renderedSize(v)[1]>> ELSE renderedSize(v)

C2_FirstWinsOverAnyEarlier ==
    \A p \in Variants :
        Has(splashScreens[p].size, "ref")
        => \A i \in 1..(splashScreens[p].size.ref - 1) :
               declaredSize(callerSizes[i])
                   # declaredSize(callerSizes[splashScreens[p].size.ref])

\* C3 as stated: one descriptor without darkResizeOptions yields exactly two entries,
\* portrait at width x height and landscape at height x width, both with dark undefined
C3_NoDarkOverrideTwoEntries ==
    ( /\ Resolved
      /\ Len(callerSizes) = 1
      /\ ~Has(callerSizes[1], "darkResizeOptions") )
    => LET m == instructions[1]
           d == callerSizes[1]
       IN  /\ Len(m) = 2
           /\ m[1].link.landscape = FALSE
           /\ <<m[1].width, m[1].height>> = <<d.width, d.height>>
           /\ m[2].link.landscape = TRUE
           /\ <<m[2].width, m[2].height>> = <<d.height, d.width>>
           /\ m[1].link.dark = "undefined"
           /\ m[2].link.dark = "undefined"

\* position p holds the landscape counterpart of descriptor d rendered with resize
\* options ro: width/height of both transposed, the other resize fields kept
landscapeAt(p, d, ro, dark) ==
    /\ p \in Variants
    /\ LET v == splashScreens[p]
           vro == FieldOrEmpty(v, "resizeOptions")
       IN  /\ v.landscape = TRUE
           /\ v.dark = dark
           /\ renderedSize(v) = <<d.height, d.width>>
           /\ sameField(vro, "width", ro, "height")
           /\ sameField(vro, "height", ro, "width")
           /\ \A f \in {"fit", "background"} : sameField(vro, f, ro, f)
           /\ sameField(FieldOrEmpty(v.size.obj, "resizeOptions"), "width", ro, "height")
           /\ sameField(FieldOrEmpty(v.size.obj, "resizeOptions"), "height", ro, "width")

\* position p holds a portrait variant that is descriptor i itself
portraitAt(p, i, dark) ==
    /\ p \in Variants
    /\ splashScreens[p].landscape = FALSE
    /\ splashScreens[p].dark = dark
    /\ splashScreens[p].size = [ref |-> i]

\* position p starts the block of a descriptor after descriptor i, or is the end
nextBlockAt(p, i) ==
    \/ p = Len(splashScreens) + 1
    \/ /\ p \in Variants
       /\ splashScreens[p].landscape = FALSE
       /\ ~isDark(splashScreens[p])
       /\ Has(splashScreens[p].size, "ref")
       /\ splashScreens[p].size.ref > i

\* the urls of the variants in order of first occurrence
RECURSIVE urlOrder(_)
urlOrder(n) ==
    IF n = 0 THEN <<>>
    ELSE LET before == urlOrder(n - 1)
             v == splashScreens[n]
             u == <<"/", defaultSplashScreenName(v.landscape, deref(v.size, sizes), v.dark)>>
         IN  IF \E k \in 1..Len(before) : before[k] = u THEN before ELSE Append(before, u)

cascade(builtIn, presetLevel, perSize) == Spread(Spread(builtIn, presetLevel), perSize)

\* C5 as stated: every field of the resolved per-size resize options (light and dark)
\* and PNG options is the per-size value if set, else the preset-level value if set,
\* else the built-in default
C5_FieldByFieldCascade ==
    Resolved =>
        \A i \in 1..Len(sizes) :
            /\ sizes[i].resizeOptions
                   = cascade(createResizeOptions(FALSE, <<>>),
                             FieldOrEmpty(useAppleSplashScreens, "resizeOptions"),
                             FieldOrEmpty(callerSizes[i], "resizeOptions"))
            /\ sizes[i].darkResizeOptions
                   = cascade(createResizeOptions(TRUE, <<>>),
                             FieldOrEmpty(useAppleSplashScreens, "darkResizeOptions"),
                             FieldOrEmpty(callerSizes[i], "darkResizeOptions"))
            /\ sizes[i].png
                   = cascade(createPngCompressionOptions(<<>>),
                             FieldOrEmpty(useAppleSplashScreens, "png"),
                             FieldOrEmpty(callerSizes[i], "png"))

\* C6 as stated: the caller's size descriptor objects are as they were before the call
C6_CallerSizesUnchanged == sizes = callerSizes

\* the descriptors differ from what the caller built only in back-filled fields
onlyBackfilled ==
    /\ Len(sizes) = Len(callerSizes)
    /\ \A i \in 1..Len(sizes) :
           /\ DOMAIN callerSizes[i] \subseteq DOMAIN sizes[i]
           /\ \A f \in DOMAIN callerSizes[i] : sizes[i][f] = callerSizes[i][f]
           /\ DOMAIN sizes[i] \subseteq
                  DOMAIN callerSizes[i]
                      \cup {"padding", "png", "resizeOptions", "darkResizeOptions"}

\* C6 amended: the resolver writes a caller's size descriptor only to back-fill
\* padding, png, resizeOptions and darkResizeOptions where they were undefined; the
\* list of descriptors, their width and height and every field the caller set stay
\* as they were, and the preset object is never written
C6_OnlyUndefinedFieldsWritten ==
    /\ []onlyBackfilled
    /\ [][useAppleSplashScreens' = useAppleSplashScreens]_vars

\* a call returned for a descriptor on which the caller set padding and resize
\* options but no darkResizeOptions, which the call back-filled
C6_Witness ==
    /\ Resolved
    /\ Len(callerSizes) >= 1
    /\ Has(callerSizes[1], "padding")
    /\ Has(callerSizes[1], "resizeOptions")
    /\ ~Has(callerSizes[1], "darkResizeOptions")
    /\ Has(sizes[1], "darkResizeOptions")

\* C10: the second resolution of the same preset and descriptor objects yields the
\* same urls in the same order with the same data per entry as the first
C10_Idempotent ==
    Len(instructions) = 2 => instructions[1] = instructions[2]

\* the second call ran on descriptors the first call had back-filled and yielded
\* entries of a size that is not square
C10_Witness ==
    /\ Len(instructions) = 2
    /\ Len(instructions[2]) >= 4
    /\ sizes # callerSizes
    /\ instructions[2][1].width # instructions[2][1].height

---------------------------------------------------------------------------
\* Properties of the deferred producers

\* the entries of all maps built so far, as <<call, url>>
Entries ==
    UNION { { <<c, instructions[c][e].url>> : e \in 1..Len(instructions[c]) } :
                c \in 1..Len(instructions) }

argsOfEntry(ce) ==
    LET m == instructions[ce[1]]
        e == CHOOSE k \in 1..Len(m) : m[k].url = ce[2]
    IN  compositorArgs(m[e].buffer, sizes)

RECURSIVE bufferCallsWith(_, _)
\* the number of buffer() invocations on the entries of S whose compositor
\* arguments are a
bufferCallsWith(S, a) ==
    IF S = {} THEN 0
    ELSE LET ce == CHOOSE x \in S : TRUE
         IN  (IF argsOfEntry(ce) = a THEN CopiesIn(ce, bufferCalls) ELSE 0)
             + bufferCallsWith(S \ {ce}, a)

\* C7: the compositor has been invoked exactly once per buffer() invocation, with the
\* arguments of the entry whose buffer() it was; resolution alone invokes it never
C7_OneCompositorCallPerBufferCall ==
    /\ BagCardinality(generateMaskableAssetCalls) = BagCardinality(bufferCalls)
    /\ \A ce \in Entries :
           CopiesIn(argsOfEntry(ce), generateMaskableAssetCalls)
               = bufferCallsWith(Entries, argsOfEntry(ce))

\* buffer() of one entry was invoked twice and buffer() of another entry never
C7_Witness ==
    /\ \E ce \in Entries : CopiesIn(ce, bufferCalls) = 2
    /\ \E ce \in Entries : CopiesIn(ce, bufferCalls) = 0
    /\ BagCardinality(generateMaskableAssetCalls) = 2

---------------------------------------------------------------------------
\* Properties of run()

noWork == resolveCalls = <<>> /\ generateCalls = <<>> /\ printed = <<>>

\* C8: without a preset, or without any image from the command line or the
\* configuration, run fails with the matching error before resolveInstructions,
\* generateAssets or any output; non-empty CLI images replace the configured ones
C8_ConfigurationErrorsFailFast ==
    /\ (pc # "start" /\ ~config.preset)
       => (pc = "failed" /\ error = "No preset found" /\ noWork)
    /\ (pc \notin {"start", "presetChecked"} /\ config.preset
            /\ cliImages = <<>> /\ config.images = <<>>)
       => (pc = "failed" /\ error = "No images provided" /\ noWork)
    /\ (resolveCalls # <<>> /\ cliImages # <<>>) => resolveCalls = cliImages
    /\ (resolveCalls # <<>> /\ cliImages = <<>>) => resolveCalls = config.images
    /\ error = "No preset found" => ~config.preset
    /\ error = "No images provided" => cliImages = <<>>

\* run failed for want of images although a preset was configured
C8_Witness ==
    /\ pc = "failed"
    /\ error = "No images provided"
    /\ config.preset

\* C9 as stated: once every resolution has settled and run has ended, generateAssets
\* has been invoked for every source image whose resolution succeeded, whatever
\* happened to the other images
C9_ImagesIsolated ==
    ( /\ pc \in {"done", "failed"}
      /\ resolution # <<>>
      /\ \A i \in 1..Len(resolution) : resolution[i] # "pending" )
    => \A i \in 1..Len(resolution) :
           resolution[i] = "fulfilled"
           => \E k \in 1..Len(generateCalls) : generateCalls[k] = i

====
